---- MODULE Spec2Model ----
(***************************************************************************)
(* A model of the Coolify provisioning client of skit-fast-cli             *)
(* (src/src/utils/coolify.ts): one run of setupProjectInfrastructure       *)
(* against a remote platform whose HTTP answers are chosen                 *)
(* nondeterministically.                                                   *)
(*                                                                         *)
(* Strings that the code takes apart (docker images) are sequences of      *)
(* tokens in which "/" and ":" are tokens of their own.  URL paths are     *)
(* sequences of path segments.  HTTP status 200 stands for any 2xx answer  *)
(* and status 0 for a transport failure (error.response undefined).        *)
(* Payload fields that are literal constants without any influence on the  *)
(* control flow (descriptions, health-check numbers, volumes, environment  *)
(* variable lists, resource limits) are left out of the payload records.   *)
(***************************************************************************)
EXTENDS Integers, Sequences, FiniteSets, TLC

\* Longest includeServices list of a run.
MaxAux == 2

----------------------------------------------------------------------------
\* Values

Status == {200, 404, 422, 500, 0}

NoError == [kind |-> "none", status |-> 0, op |-> "none", idx |-> 0, retry |-> FALSE]

Error(message) == [kind |-> message, status |-> 0, op |-> "none", idx |-> 0, retry |-> FALSE]

\* The axios error of request r answered with status s.
HttpError(r, s) == [kind |-> "http", status |-> s, op |-> r.op, idx |-> r.idx, retry |-> r.retry]

NoPayload == [none |-> "none"]

NoReq == [method |-> "none", path |-> <<>>, payload |-> NoPayload, phase |-> 0,
          op |-> "none", idx |-> 0, retry |-> FALSE, auxK |-> 0]

NoResult == [kind |-> "none", services |-> <<>>, network |-> "null", error |-> NoError]

Returned(svcs, net) == [kind |-> "returned", services |-> svcs, network |-> net, error |-> NoError]

Rejected(err) == [kind |-> "rejected", services |-> <<>>, network |-> "null", error |-> err]

\* { ...rec, field: value }
With(rec, field, value) ==
  [x \in (DOMAIN rec) \cup {field} |-> IF x = field THEN value ELSE rec[x]]

Has(rec, field) == field \in DOMAIN rec

----------------------------------------------------------------------------
\* Inputs of a run

AppImage == <<"reg", "/", "app", ":", "latest">>

Images == {<<>>, AppImage}

AuxKinds == {"litellm", "qdrant"}

\* The lists over S of length at most n that name no element twice.
SeqsNoDup(S, n) ==
  {q \in UNION {[1..m -> S] : m \in 0..n} : \A i, j \in DOMAIN q : i # j => q[i] # q[j]}

OptionSets ==
  [includeSvelteKit : BOOLEAN,
   dockerImage : Images,
   includeDatabase : {"null", "pocketbase", "mongodb"},
   includeRedis : BOOLEAN,
   includeServices : SeqsNoDup(AuxKinds, MaxAux)]

ProjectIds == {"", "p1"}

\* Bodies of 2xx answers to a create POST: the created service with an id,
\* without one, and (for the application) the JSON body null.  The name tells
\* which resource the body stands for; the id the platform assigns is the name.
ServiceBodies(name) ==
  { [name |-> name, id |-> name, isNull |-> FALSE],
    [name |-> name, id |-> "", isNull |-> FALSE] }
  \cup IF name = "app" THEN {[name |-> name, id |-> "", isNull |-> TRUE]} ELSE {}

ServerLists ==
  { [isArray |-> FALSE, items |-> <<>>],
    [isArray |-> TRUE, items |-> <<>>],
    [isArray |-> TRUE, items |-> <<[uuid |-> "", id |-> ""]>>],
    [isArray |-> TRUE, items |-> <<[uuid |-> "", id |-> "i1"]>>],
    [isArray |-> TRUE, items |-> <<[uuid |-> "s1", id |-> ""], [uuid |-> "s2", id |-> ""]>>] }

EnvironmentLists ==
  { [isArray |-> FALSE, items |-> <<>>],
    [isArray |-> TRUE, items |-> <<>>],
    [isArray |-> TRUE, items |-> <<[name |-> "prod", uuid |-> "e1", id |-> ""]>>],
    [isArray |-> TRUE, items |-> <<[name |-> "dev", uuid |-> "", id |-> "e0"],
                                   [name |-> "production", uuid |-> "e2", id |-> ""]>>] }

DestinationLists ==
  { [isArray |-> FALSE, items |-> <<>>],
    [isArray |-> TRUE, items |-> <<>>],
    [isArray |-> TRUE, items |-> <<[uuid |-> "d1", id |-> ""]>>] }

----------------------------------------------------------------------------
\* Pure functions of the client

\* String.prototype.lastIndexOf(c): 0-based index of the last c in s, or -1.
LastIndexOf(s, c) ==
  LET hits == {i \in 1..Len(s) : s[i] = c}
  IN IF hits = {} THEN -1 ELSE (CHOOSE i \in hits : \A j \in hits : j <= i) - 1

\* String.prototype.substring(from, to) with 0-based bounds.
Substring(s, from, to) == SubSeq(s, from + 1, to)

\* A parseDockerImage that splits at the first colon.
parseDockerImageAtFirstColon(dockerImage) ==
  LET lastSlashIndex == LastIndexOf(dockerImage, "/")
      searchStartIndex == IF lastSlashIndex = -1 THEN 0 ELSE lastSlashIndex
      colons == {i \in 1..Len(dockerImage) : dockerImage[i] = ":"}
      colonIndex == IF colons = {} THEN -1 ELSE (CHOOSE i \in colons : \A j \in colons : i <= j) - 1
      name == Substring(dockerImage, 0, colonIndex)
      tag == Substring(dockerImage, colonIndex + 1, Len(dockerImage))
  IN IF colonIndex = -1 \/ colonIndex < searchStartIndex
       THEN [name |-> dockerImage, tag |-> <<"latest">>]
     ELSE IF \E i \in 1..Len(tag) : tag[i] = "/"
       THEN [name |-> dockerImage, tag |-> <<"latest">>]
     ELSE [name |-> name, tag |-> tag]

\* A parseDockerImage that gives the tag 'latest' when nothing follows the colon.
parseDockerImageDefaultingEmptyTag(dockerImage) ==
  LET lastSlashIndex == LastIndexOf(dockerImage, "/")
      searchStartIndex == IF lastSlashIndex = -1 THEN 0 ELSE lastSlashIndex
      colonIndex == LastIndexOf(dockerImage, ":")
      name == Substring(dockerImage, 0, colonIndex)
      tag == Substring(dockerImage, colonIndex + 1, Len(dockerImage))
  IN IF colonIndex = -1 \/ colonIndex < searchStartIndex
       THEN [name |-> dockerImage, tag |-> <<"latest">>]
     ELSE IF \E i \in 1..Len(tag) : tag[i] = "/"
       THEN [name |-> dockerImage, tag |-> <<"latest">>]
     ELSE [name |-> name, tag |-> IF tag = <<>> THEN <<"latest">> ELSE tag]

\* parseDockerImage: name and tag of an image string.
parseDockerImage(dockerImage) ==
  LET lastSlashIndex == LastIndexOf(dockerImage, "/")
      searchStartIndex == IF lastSlashIndex = -1 THEN 0 ELSE lastSlashIndex
      colonIndex == LastIndexOf(dockerImage, ":")
      name == Substring(dockerImage, 0, colonIndex)
      tag == Substring(dockerImage, colonIndex + 1, Len(dockerImage))
  IN IF colonIndex = -1 \/ colonIndex < searchStartIndex
       THEN [name |-> dockerImage, tag |-> <<"latest">>]
     ELSE IF \E i \in 1..Len(tag) : tag[i] = "/"
       THEN [name |-> dockerImage, tag |-> <<"latest">>]
     ELSE [name |-> name, tag |-> tag]

\* s.trim(), for the blank token " ".
RECURSIVE Trim(_)
Trim(s) ==
  IF s = <<>> THEN s
  ELSE IF s[1] = " " THEN Trim(Tail(s))
  ELSE IF s[Len(s)] = " " THEN Trim(SubSeq(s, 1, Len(s) - 1))
  ELSE s

\* s.endsWith(suffix)
EndsWith(s, suffix) ==
  Len(s) >= Len(suffix) /\ SubSeq(s, Len(s) - Len(suffix) + 1, Len(s)) = suffix

\* s.replace(pattern, ''): the first occurrence of pattern is taken out.
ReplaceFirst(s, pattern) ==
  LET at == {i \in 1..(Len(s) - Len(pattern) + 1) : SubSeq(s, i, i + Len(pattern) - 1) = pattern}
  IN IF at = {} THEN s
     ELSE LET i == CHOOSE j \in at : \A k \in at : j <= k
          IN SubSeq(s, 1, i - 1) \o SubSeq(s, i + Len(pattern), Len(s))

\* The string '/api/v1'.
ApiV1 == <<"/", "api", "/", "v1">>

\* The constructor: the baseURL the axios client is created with.
cleanUrl(baseUrl) ==
  LET trimmed == Trim(baseUrl)
      noSlash == IF EndsWith(trimmed, <<"/">>) THEN SubSeq(trimmed, 1, Len(trimmed) - 1)
                 ELSE trimmed
  IN IF EndsWith(noSlash, ApiV1) THEN ReplaceFirst(noSlash, ApiV1) ELSE noSlash

\* Values of a JSON field that holds an identifier: missing, a string, a
\* number below ten, or the empty array.
Undefined == [kind |-> "undefined", s |-> "", n |-> 0]

Str(s) == [kind |-> "string", s |-> s, n |-> 0]

Num(n) == [kind |-> "number", s |-> "", n |-> n]

EmptyArray == [kind |-> "array", s |-> "", n |-> 0]

\* The truthiness the conditions  x.id , !projectId  and  a || b  test.
Truthy(x) ==
  CASE x.kind = "undefined" -> FALSE
    [] x.kind = "string" -> x.s # ""
    [] x.kind = "number" -> x.n # 0
    [] x.kind = "array" -> TRUE

\* String(x): a string is kept, a number gives its decimal digits, an array
\* its elements joined with ',' (nothing for the empty array).
JsString(x) ==
  CASE x.kind = "undefined" -> "undefined"
    [] x.kind = "string" -> x.s
    [] x.kind = "number" -> <<"0", "1", "2", "3", "4", "5", "6", "7", "8", "9">>[x.n + 1]
    [] x.kind = "array" -> ""

\* The project argument: a string, or an object with id, uuid, project_id.
StringProject(s) ==
  [isObject |-> FALSE, str |-> s, id |-> Undefined, uuid |-> Undefined, project_id |-> Undefined]

ObjectProject(id, uuid) ==
  [isObject |-> TRUE, str |-> "", id |-> id, uuid |-> uuid, project_id |-> Undefined]

ProjectInputs == {StringProject(s) : s \in ProjectIds}

\* A validateProjectId without the emptiness check.
validateProjectIdUnchecked(project) ==
  [ok |-> TRUE, id |-> JsString(IF project.isObject THEN project.id ELSE Str(project.str))]

\* validateProjectId: ok is FALSE when it throws; id is the normalised id.
validateProjectId(project) ==
  LET projectId == IF project.isObject
                     THEN IF Truthy(project.id) THEN project.id
                          ELSE IF Truthy(project.uuid) THEN project.uuid
                          ELSE project.project_id
                     ELSE Str(project.str)
  IN [ok |-> Truthy(projectId), id |-> JsString(projectId)]

\* createProject after its POST /api/v1/projects: ok tells whether the POST
\* was answered 2xx, body is response.data (isNull: the JSON body null; data:
\* its field data, when that is an object).  ok is FALSE when it rejects.
createProject(ok, body) ==
  LET Rejects == [ok |-> FALSE, id |-> ""]
      Returns(project) == LET v == validateProjectId(project)
                          IN IF v.ok THEN [ok |-> TRUE, id |-> v.id] ELSE Rejects
  IN IF ~ok \/ body.isNull THEN Rejects
     ELSE IF Truthy(body.id) THEN Returns(ObjectProject(body.id, body.uuid))
     ELSE IF body.data.isObject /\ Truthy(body.data.id)
       THEN Returns(ObjectProject(body.data.id, Undefined))
     ELSE IF Truthy(body.uuid) THEN Returns(ObjectProject(body.uuid, body.uuid))
     ELSE Rejects

\* A getServerUuid that looks for the first server that has an identifier.
FirstServerUuidOfAnyServer(body) ==
  IF ~body.isArray \/ Len(body.items) = 0 THEN [ok |-> FALSE, uuid |-> "", error |-> Error("No servers found")]
  ELSE LET ids == [k \in 1..Len(body.items) |->
                     IF body.items[k].uuid # "" THEN body.items[k].uuid ELSE body.items[k].id]
           found == SelectSeq(ids, LAMBDA x : x # "")
       IN IF found = <<>>
            THEN [ok |-> FALSE, uuid |-> "", error |-> Error("Server UUID not found")]
            ELSE [ok |-> TRUE, uuid |-> found[1], error |-> NoError]

\* A getServerUuid that falls back to a default server when none is listed.
FirstServerUuidDefaulting(body) ==
  IF ~body.isArray \/ Len(body.items) = 0 THEN [ok |-> TRUE, uuid |-> "0", error |-> NoError]
  ELSE LET server == body.items[1]
           serverUuid == IF server.uuid # "" THEN server.uuid ELSE server.id
       IN IF serverUuid = ""
            THEN [ok |-> FALSE, uuid |-> "", error |-> Error("Server UUID not found")]
            ELSE [ok |-> TRUE, uuid |-> serverUuid, error |-> NoError]

\* getServerUuid on a 2xx body: the first server's uuid, else its id.
FirstServerUuid(body) ==
  IF ~body.isArray \/ Len(body.items) = 0 THEN [ok |-> FALSE, uuid |-> "", error |-> Error("No servers found")]
  ELSE LET server == body.items[1]
           serverUuid == IF server.uuid # "" THEN server.uuid ELSE server.id
       IN IF serverUuid = ""
            THEN [ok |-> FALSE, uuid |-> "", error |-> Error("Server UUID not found")]
            ELSE [ok |-> TRUE, uuid |-> serverUuid, error |-> NoError]

DefaultEnvironment == [name |-> "production", uuid |-> ""]

\* A getDefaultEnvironment that looks for 'production' first and for 'prod' after.
getDefaultEnvironmentByPreference(ok, body) ==
  IF ok /\ body.isArray /\ Len(body.items) > 0
    THEN LET named(n) == {i \in 1..Len(body.items) : body.items[i].name = n}
             first(S) == CHOOSE i \in S : \A j \in S : i <= j
             productionEnv == IF named("production") # {} THEN body.items[first(named("production"))]
                              ELSE IF named("prod") # {} THEN body.items[first(named("prod"))]
                              ELSE body.items[1]
         IN [name |-> IF productionEnv.name # "" THEN productionEnv.name ELSE "production",
             uuid |-> IF productionEnv.uuid # "" THEN productionEnv.uuid ELSE productionEnv.id]
    ELSE DefaultEnvironment

\* getDefaultEnvironment: ok says whether the GET answered 2xx.
getDefaultEnvironment(ok, body) ==
  IF ok /\ body.isArray /\ Len(body.items) > 0
    THEN LET named == {i \in 1..Len(body.items) :
                         body.items[i].name = "production" \/ body.items[i].name = "prod"}
             productionEnv == IF named = {} THEN body.items[1]
                              ELSE body.items[CHOOSE i \in named : \A j \in named : i <= j]
         IN [name |-> IF productionEnv.name # "" THEN productionEnv.name ELSE "production",
             uuid |-> IF productionEnv.uuid # "" THEN productionEnv.uuid ELSE productionEnv.id]
    ELSE DefaultEnvironment

\* A getDefaultDestinationUuid that names a default destination when it finds none.
getDefaultDestinationUuidOrDefault(ok, body) ==
  IF ok /\ body.isArray /\ Len(body.items) > 0
    THEN IF body.items[1].uuid # "" THEN body.items[1].uuid ELSE body.items[1].id
    ELSE "default"

\* getDefaultDestinationUuid: "" stands for null.
getDefaultDestinationUuid(ok, body) ==
  IF ok /\ body.isArray /\ Len(body.items) > 0
    THEN IF body.items[1].uuid # "" THEN body.items[1].uuid ELSE body.items[1].id
    ELSE ""

----------------------------------------------------------------------------
\* Payloads

\* A payload that names the image as it was given, tag included.
DockerImagePayloadUnparsed(projectId, serviceName, dockerImage, server, env, destination) ==
  LET parsed == parseDockerImage(dockerImage)
      payload == [project_uuid |-> projectId,
                  server_uuid |-> server,
                  environment_name |-> IF env.name # "" THEN env.name ELSE "production",
                  docker_registry_image_name |-> dockerImage,
                  docker_registry_image_tag |-> parsed.tag,
                  ports_exposes |-> "3000",
                  name |-> serviceName,
                  instant_deploy |-> "true"]
      withEnv == IF env.uuid # "" THEN With(payload, "environment_uuid", env.uuid) ELSE payload
  IN IF destination # "" THEN With(withEnv, "destination_uuid", destination) ELSE withEnv

\* The payload of createApplicationWithDockerImage.
DockerImagePayload(projectId, serviceName, dockerImage, server, env, destination) ==
  LET parsed == parseDockerImage(dockerImage)
      payload == [project_uuid |-> projectId,
                  server_uuid |-> server,
                  environment_name |-> IF env.name # "" THEN env.name ELSE "production",
                  docker_registry_image_name |-> parsed.name,
                  docker_registry_image_tag |-> parsed.tag,
                  ports_exposes |-> "3000",
                  name |-> serviceName,
                  instant_deploy |-> "true"]
      withEnv == IF env.uuid # "" THEN With(payload, "environment_uuid", env.uuid) ELSE payload
  IN IF destination # "" THEN With(withEnv, "destination_uuid", destination) ELSE withEnv

createSvelteKitServiceWithSimplifiedPayload(projectId, serviceName, dockerImage) ==
  LET parsed == parseDockerImage(dockerImage)
  IN [new |-> [name |-> serviceName, image |-> dockerImage, project_id |-> projectId],
      legacy |-> [name |-> serviceName,
                  docker_registry_image_name |-> parsed.name,
                  docker_registry_image_tag |-> parsed.tag,
                  project_uuid |-> projectId,
                  ports_exposes |-> "3000"]]

createSvelteKitServiceMinimal(projectId, serviceName, dockerImage) ==
  [new |-> [name |-> serviceName, image |-> dockerImage],
   legacy |-> [name |-> serviceName, docker_image |-> dockerImage, project_uuid |-> projectId]]

createPocketBaseService(projectId) ==
  [new |-> [name |-> "pocketbase",
            image |-> <<"ghcr.io", "/", "muchobien", "/", "pocketbase", ":", "latest">>,
            project_id |-> projectId,
            restart_policy |-> "unless-stopped"],
   legacy |-> [name |-> "pocketbase",
               docker_registry_image_name |-> <<"ghcr.io", "/", "muchobien", "/", "pocketbase">>,
               docker_registry_image_tag |-> <<"latest">>,
               ports_exposes |-> "8090",
               project_uuid |-> projectId]]

createRedisService(projectId) ==
  [new |-> [name |-> "redis",
            image |-> <<"redis", ":", "alpine">>,
            command |-> "redis-server --requirepass redis123",
            project_id |-> projectId,
            restart_policy |-> "unless-stopped"],
   legacy |-> [name |-> "redis",
               docker_registry_image_name |-> <<"redis">>,
               docker_registry_image_tag |-> <<"alpine">>,
               ports_exposes |-> "6379",
               project_uuid |-> projectId,
               command |-> "redis-server --requirepass redis123"]]

createLiteLLMService(projectId) ==
  [new |-> [name |-> "litellm",
            image |-> <<"ghcr.io", "/", "berriai", "/", "litellm", ":", "main-stable">>,
            project_id |-> projectId,
            restart_policy |-> "unless-stopped"],
   legacy |-> [name |-> "litellm",
               docker_registry_image_name |-> <<"ghcr.io", "/", "berriai", "/", "litellm">>,
               docker_registry_image_tag |-> <<"main-stable">>,
               ports_exposes |-> "4000",
               project_uuid |-> projectId]]

createQdrantService(projectId) ==
  [new |-> [name |-> "qdrant",
            image |-> <<"qdrant", "/", "qdrant", ":", "latest">>,
            project_id |-> projectId,
            restart_policy |-> "unless-stopped"],
   legacy |-> [name |-> "qdrant",
               docker_registry_image_name |-> <<"qdrant", "/", "qdrant">>,
               docker_registry_image_tag |-> <<"latest">>,
               ports_exposes |-> "6333,6334",
               project_uuid |-> projectId]]

createMongoDBServicePayload ==
  [name |-> "mongodb", docker_image |-> <<"mongo", ":", "latest">>,
   ports_exposes |-> "27017", restart_policy |-> "unless-stopped"]

\* The operations that go through createServiceWithFallback.
NegotiatedOps == {"app_simplified", "app_minimal", "pocketbase", "redis", "litellm", "qdrant"}

\* The serviceName argument each operation passes to createServiceWithFallback.
ServiceName(o) == IF o \in {"app_primary", "app_simplified", "app_minimal"} THEN "app" ELSE o

\* The (newFormatPayload, legacyFormatPayload) arguments of operation o.
FormatPayloads(o, projectId, dockerImage) ==
  CASE o = "app_simplified" -> createSvelteKitServiceWithSimplifiedPayload(projectId, "app", dockerImage)
    [] o = "app_minimal" -> createSvelteKitServiceMinimal(projectId, "app", dockerImage)
    [] o = "pocketbase" -> createPocketBaseService(projectId)
    [] o = "redis" -> createRedisService(projectId)
    [] o = "litellm" -> createLiteLLMService(projectId)
    [] o = "qdrant" -> createQdrantService(projectId)

\* a || b on image values: <<>> is the falsy (undefined or empty) value.
OrElse(rec, field, other) == IF Has(rec, field) /\ rec[field] # <<>> THEN rec[field] ELSE other

Field(rec, field) == IF Has(rec, field) THEN rec[field] ELSE <<>>

\* A candidate table with one more endpoint.
endpointsToTryWithExtra(projectId, serviceName, newFormatPayload, legacyFormatPayload) ==
  LET base == [name |-> serviceName,
               project_uuid |-> projectId,
               image |-> OrElse(newFormatPayload, "image",
                                OrElse(legacyFormatPayload, "docker_registry_image_name", <<"undefined">>)
                                  \o <<":">> \o
                                OrElse(legacyFormatPayload, "docker_registry_image_tag", <<"undefined">>))]
      dockerImagePayload ==
        IF Has(legacyFormatPayload, "server_uuid") /\ legacyFormatPayload.server_uuid # ""
          THEN With(base, "server_uuid", legacyFormatPayload.server_uuid)
          ELSE base
  IN << [url |-> <<"api", "v1", "applications", "dockerimage">>, payload |-> dockerImagePayload],
        [url |-> <<"api", "v1", "applications">>,
         payload |-> With(legacyFormatPayload, "project_uuid", projectId)],
        [url |-> <<"api", "v1", "projects", projectId, "applications">>, payload |-> legacyFormatPayload],
        [url |-> <<"api", "v1", "services">>, payload |-> With(newFormatPayload, "project_id", projectId)],
        [url |-> <<"api", "v1", "projects", projectId, "services">>, payload |-> newFormatPayload],
        [url |-> <<"applications">>, payload |-> With(legacyFormatPayload, "project_uuid", projectId)],
        [url |-> <<"services">>, payload |-> With(newFormatPayload, "project_id", projectId)] >>

\* The candidate table of createServiceWithFallback.
endpointsToTry(projectId, serviceName, newFormatPayload, legacyFormatPayload) ==
  LET base == [name |-> serviceName,
               project_uuid |-> projectId,
               image |-> OrElse(newFormatPayload, "image",
                                OrElse(legacyFormatPayload, "docker_registry_image_name", <<"undefined">>)
                                  \o <<":">> \o
                                OrElse(legacyFormatPayload, "docker_registry_image_tag", <<"undefined">>))]
      dockerImagePayload ==
        IF Has(legacyFormatPayload, "server_uuid") /\ legacyFormatPayload.server_uuid # ""
          THEN With(base, "server_uuid", legacyFormatPayload.server_uuid)
          ELSE base
  IN << [url |-> <<"api", "v1", "applications", "dockerimage">>, payload |-> dockerImagePayload],
        [url |-> <<"api", "v1", "applications">>,
         payload |-> With(legacyFormatPayload, "project_uuid", projectId)],
        [url |-> <<"api", "v1", "projects", projectId, "applications">>, payload |-> legacyFormatPayload],
        [url |-> <<"api", "v1", "services">>, payload |-> With(newFormatPayload, "project_id", projectId)],
        [url |-> <<"api", "v1", "projects", projectId, "services">>, payload |-> newFormatPayload],
        [url |-> <<"applications">>, payload |-> With(legacyFormatPayload, "project_uuid", projectId)] >>

\* The payload of the retry that follows a 422.
simplifiedPayload(projectId, serviceName, newFormatPayload, endpoint) ==
  LET simple == [name |-> serviceName,
                 docker_image |-> OrElse(newFormatPayload, "image",
                                         Field(endpoint.payload, "docker_registry_image_name")),
                 project_uuid |-> projectId]
  IN IF Field(endpoint.payload, "docker_registry_image_tag") # <<>>
       THEN With(simple, "docker_image_tag", endpoint.payload.docker_registry_image_tag)
       ELSE simple

\* The endpoints of createProjectNetwork and its payload.
networkEndpointsToTry(projectId) ==
  << <<"api", "v1", "projects", projectId, "networks">>,
     <<"api", "v1", "networks">>,
     <<"projects", projectId, "networks">> >>

NetworkPayload(projectId, networkName) ==
  [name |-> networkName, driver |-> "bridge", attachable |-> "true",
   project_id |-> projectId, project_uuid |-> projectId]

\* services.map(s => s.id).filter(id => id)
ServiceIds(svcs) == SelectSeq([i \in 1..Len(svcs) |-> svcs[i].id], LAMBDA id : id # "")

----------------------------------------------------------------------------
\* State.  The code runs without interruption from the answer to one request
\* up to the next request it issues, so every action is: the outstanding
\* request is answered, the continuation runs, the next request leaves (or
\* the run ends).

VARIABLES
  project,             \* the projectId argument of setupProjectInfrastructure
  options,             \* its options argument
  platform,            \* the statuses the remote platform of this run answers with
  pc,                  \* the await the run stands at, "start" or "done"
  op,                  \* the operation that await belongs to
  idx,                 \* position in the endpoint list (or service-id list) being walked
  auxK,                \* position in options.includeServices
  result,              \* what the run handed to its caller
  validatedProjectId,
  network,             \* "null" or the body of the network answer
  services,            \* the services array
  serverUuid,          \* local of createSvelteKitService
  environment,         \* local of createApplicationWithDockerImage
  destinationUuid,     \* local of createApplicationWithDockerImage
  primaryError,        \* the error caught at createSvelteKitService's first attempt
  lastError,           \* local of createServiceWithFallback
  req,                 \* the outstanding HTTP request, NoReq when there is none
  answered,            \* the request before req, the one answered last
  resp,                \* the status of the answer to it, -1 if none
  thrown,              \* the error the createServiceWithFallback call just ended rejected with
  only404,             \* observer: every answer of the current call so far was a 404
  created,             \* observer: names of the resources whose creation POST got a 2xx
  attempted,           \* observer: resources for which a creation request was issued
  failedSteps,         \* observer: steps that ended in failure
  appFailed,           \* observer: createSvelteKitService rejected
  serversGet,          \* observer: "none", "unusable" or "listed"
  outstanding,         \* observer: number of requests sent and not yet answered
  attemptsInOp,        \* observer: first-attempt creation POSTs of the resource being created
  fn,                  \* the function or method applied on its own, "none" in a run
  fnArg,               \* its argument
  fnOut                \* its result

inputs == <<project, options, platform>>
ctl == <<pc, op, idx, auxK, result>>
data == <<validatedProjectId, network, services, serverUuid, environment, destinationUuid,
          primaryError, lastError>>
http == <<req, answered, resp>>
observers == <<thrown, only404, created, attempted, failedSteps, appFailed,
               serversGet, outstanding, attemptsInOp>>
applied == <<fn, fnArg, fnOut>>

\* State of the command createProject of create.ts, which runs the steps of
\* a project creation one after the other in one process.
VARIABLES
  cliPc,               \* the step createProject stands before, "none" outside it
  projectOptions,      \* the ProjectOptions the prompts gave
  cwd,                 \* process.cwd(), as the directory names below the start directory
  dirs,                \* the directories that exist, named the same way
  envFile,             \* what the project's .env file holds
  sent,                \* the calls made on the CoolifyClient
  connected,           \* what testConnection returned, "unknown" before it
  generated            \* generateProjectFiles wrote the project files

cli == <<cliPc, projectOptions, cwd, dirs, envFile, sent, connected, generated>>
vars == <<inputs, ctl, data, http, observers, applied, cli>>

AppOps == {"servers", "env", "dest", "app_primary", "app_simplified", "app_minimal"}

\* The phase of the run an operation belongs to.
Phase(o) ==
  CASE o = "network" -> 1
    [] o \in AppOps -> 2
    [] o \in {"pocketbase", "mongodb"} -> 3
    [] o = "redis" -> 4
    [] o \in AuxKinds -> 5
    [] o = "link" -> 6
    [] OTHER -> 0

\* The resource an operation creates.
Resource(o) == IF o \in AppOps THEN "app" ELSE o

----------------------------------------------------------------------------
\* Control flow of setupProjectInfrastructure

Goto(p, o, i, k) == [pc |-> p, op |-> o, idx |-> i, auxK |-> k, result |-> NoResult]

\* A negotiation that goes on from the candidate the client last stood at.
StartNegotiationWhereItStood(o, k) == Goto("neg", o, idx, k)

\* The entry of createServiceWithFallback: lastError is null and the loop
\* stands at the first entry of endpointsToTry.
StartNegotiation(o, k) == Goto("neg", o, 1, k)

Finish(res) == [pc |-> "done", op |-> "none", idx |-> 0, auxK |-> 0, result |-> res]

SetCtl(c) ==
  /\ pc' = c.pc
  /\ op' = c.op
  /\ idx' = c.idx
  /\ auxK' = c.auxK
  /\ result' = c.result

\* An outer catch that rethrows whatever was created.
CatchRethrowing(svcs, err) == Finish(Rejected(err))

\* An outer catch that hands over the services whether or not there are any.
CatchReturningAlways(svcs, err) == Finish(Returned(svcs, "null"))

\* The outer catch: partial services are returned, otherwise the error is rethrown.
Catch(svcs, err) ==
  IF Len(svcs) > 0 THEN Finish(Returned(svcs, "null")) ELSE Finish(Rejected(err))

\* Network linking and the return statement.
GoLink(svcs, net) ==
  IF Len(svcs) > 0
    THEN IF \E i \in 1..Len(svcs) : svcs[i].isNull
           THEN Catch(svcs, Error("TypeError"))
         ELSE IF Len(ServiceIds(svcs)) > 0
           THEN Goto("link", "link", 1, 0)
         ELSE Finish(Returned(svcs, net))
    ELSE Finish(Returned(svcs, net))

\* The loop over options.includeServices, from position k on.
GoAux(k, svcs, net) ==
  LET js == {j \in k..Len(options.includeServices) :
               options.includeServices[j] \in {"litellm", "qdrant"}}
  IN IF js = {} THEN GoLink(svcs, net)
     ELSE LET j == CHOOSE i \in js : \A h \in js : i <= h
          IN StartNegotiation(options.includeServices[j], j)

GoRedis(svcs, net) ==
  IF options.includeRedis THEN StartNegotiation("redis", 0) ELSE GoAux(1, svcs, net)

GoDb(svcs, net) ==
  IF options.includeDatabase = "pocketbase" THEN StartNegotiation("pocketbase", 0)
  ELSE IF options.includeDatabase = "mongodb" THEN Goto("mongo", "mongodb", 1, 0)
  ELSE GoRedis(svcs, net)

GoApp(svcs, net) ==
  IF options.includeSvelteKit /\ options.dockerImage # <<>>
    THEN Goto("servers", "servers", 1, 0)
    ELSE GoDb(svcs, net)

\* Where the run goes on once the step of resource r is over.
After(r, k, svcs, net) ==
  CASE r = "app" -> GoDb(svcs, net)
    [] r \in {"pocketbase", "mongodb"} -> GoRedis(svcs, net)
    [] r = "redis" -> GoAux(1, svcs, net)
    [] r \in AuxKinds -> GoAux(k + 1, svcs, net)

\* A catch around createSvelteKitService that goes on like the other catches.
AppFailedContinuing(err, k, svcs, net) == GoDb(svcs, net)

\* The catch around createSvelteKitService: the error is rethrown.
AppFailed(err, k, svcs, net) == Catch(svcs, err)

\* Catch blocks that all rethrow.
ServiceFailedRethrowing(r, err, k, svcs, net) == Catch(svcs, err)

\* Catch blocks where the database's rethrows like the application's.
ServiceFailedFatalDatabase(r, err, k, svcs, net) ==
  IF r \in {"app", "pocketbase", "mongodb"} THEN Catch(svcs, err) ELSE After(r, k, svcs, net)

\* The catch blocks around the create calls of setupProjectInfrastructure.
ServiceFailed(r, err, k, svcs, net) ==
  IF r = "app" THEN AppFailed(err, k, svcs, net) ELSE After(r, k, svcs, net)

\* An assignment in place of the push.
PushReplacing(svcs, body) == <<body>>

\* services.push(body) after a create call resolved with body.
Push(svcs, body) == Append(svcs, body)

\* A fallback chain that rejects with the error of its last fallback.
NegotiationFailedWithOwnError(o, err, primary, k, svcs, net) ==
  IF o = "app_simplified" THEN StartNegotiation("app_minimal", 0)
  ELSE IF o = "app_minimal" THEN ServiceFailed("app", err, k, svcs, net)
  ELSE ServiceFailed(o, err, k, svcs, net)

\* createServiceWithFallback of operation o rejected with err: the fallback
\* chain of createSvelteKitService, or the caller's catch.
NegotiationFailed(o, err, primary, k, svcs, net) ==
  IF o = "app_simplified" THEN StartNegotiation("app_minimal", 0)
  ELSE IF o = "app_minimal" THEN ServiceFailed("app", primary, k, svcs, net)
  ELSE ServiceFailed(o, err, k, svcs, net)

----------------------------------------------------------------------------
\* The negotiation loop of createServiceWithFallback

\* The number of candidates of a createServiceWithFallback call.
NumCandidates ==
  Len(endpointsToTry("p", "n", [name |-> "n", image |-> <<"i">>], [name |-> "n"]))

\* The candidate table of the call the run stands in.
Candidates ==
  LET fp == FormatPayloads(op, validatedProjectId, options.dockerImage)
  IN endpointsToTry(validatedProjectId, ServiceName(op), fp.new, fp.legacy)

\* A loop that does not return on a 2xx answer.
OutcomeIgnoringSuccess(s, isRetry, i, n) ==
  IF ~isRetry /\ s = 422 THEN "retry"
  ELSE IF i < n THEN "next"
  ELSE IF s = 200 THEN "return"
  ELSE "throw"

\* A loop that sends the simplified payload after any failure of the first POST.
OutcomeRetryingOnAnyError(s, isRetry, i, n) ==
  IF s = 200 THEN "return"
  ELSE IF ~isRetry THEN "retry"
  ELSE IF i < n THEN "next"
  ELSE "throw"

\* A loop that sends the simplified payload again whenever it is refused.
OutcomeRetryingWithoutEnd(s, isRetry, i, n) ==
  IF s = 200 THEN "return"
  ELSE IF s = 422 THEN "retry"
  ELSE IF i < n THEN "next"
  ELSE "throw"

\* A loop that gives the call up when a candidate endpoint does not exist.
OutcomeGivingUpOn404(s, isRetry, i, n) ==
  IF s = 200 THEN "return"
  ELSE IF ~isRetry /\ s = 422 THEN "retry"
  ELSE IF i < n /\ s # 404 THEN "next"
  ELSE "throw"

\* What the loop does with the answer s to the POST (isRetry: to the
\* simplified-payload POST) of candidate i out of n.
Outcome(s, isRetry, i, n) ==
  IF s = 200 THEN "return"
  ELSE IF ~isRetry /\ s = 422 THEN "retry"
  ELSE IF i < n THEN "next"
  ELSE "throw"

\* lastError after the POST failed with err: only the catch of the first POST
\* of a candidate assigns it.
RecordError(last, err, isRetry) == IF isRetry THEN last ELSE err

----------------------------------------------------------------------------
\* Requests

NextRequest ==
  LET pid == validatedProjectId
      Post(path, payload, isRetry) ==
        [method |-> "POST", path |-> path, payload |-> payload, phase |-> Phase(op),
         op |-> op, idx |-> idx, retry |-> isRetry, auxK |-> auxK]
      Get(path) ==
        [method |-> "GET", path |-> path, payload |-> NoPayload, phase |-> Phase(op),
         op |-> op, idx |-> idx, retry |-> FALSE, auxK |-> auxK]
  IN CASE pc = "net" ->
            Post(networkEndpointsToTry(pid)[idx], NetworkPayload(pid, "app-network"), FALSE)
       [] pc = "servers" -> Get(<<"api", "v1", "servers">>)
       [] pc = "env" -> Get(<<"api", "v1", "environments">>)
       [] pc = "dest" -> Get(<<"api", "v1", "destinations">>)
       [] pc = "primary" ->
            Post(<<"api", "v1", "applications", "dockerimage">>,
                 DockerImagePayload(pid, "app", options.dockerImage, serverUuid,
                                    environment, destinationUuid), FALSE)
       [] pc = "neg" -> Post(Candidates[idx].url, Candidates[idx].payload, FALSE)
       [] pc = "retry" ->
            Post(Candidates[idx].url,
                 simplifiedPayload(pid, ServiceName(op),
                                   FormatPayloads(op, pid, options.dockerImage).new,
                                   Candidates[idx]), TRUE)
       [] pc = "mongo" ->
            Post(<<"api", "v1", "projects", pid, "databases", "mongodb">>,
                 createMongoDBServicePayload, FALSE)
       [] pc = "link" ->
            Post(<<"api", "v1", "projects", pid, "services", ServiceIds(services)[idx], "networks">>,
                 [network_name |-> "app-network"], FALSE)

IsCreatePost(r) == r.method = "POST" /\ r.phase \in 2..5

IsNegotiated(r) == r.method = "POST" /\ r.op \in NegotiatedOps

\* The bodies that may come with status s: only a 2xx answer carries one the
\* code reads.
Bodies(s, all) == IF s = 200 THEN all ELSE {CHOOSE b \in all : TRUE}

----------------------------------------------------------------------------
\* Actions

\* Runs with any options against a platform that accepts or lacks an endpoint,
\* and runs with the options below against a platform answering anything.
SampleOptions ==
  { [includeSvelteKit |-> TRUE, dockerImage |-> AppImage, includeDatabase |-> "pocketbase",
     includeRedis |-> FALSE, includeServices |-> <<>>],
    [includeSvelteKit |-> FALSE, dockerImage |-> <<>>, includeDatabase |-> "mongodb",
     includeRedis |-> TRUE, includeServices |-> <<"litellm", "qdrant">>] }

\* The command createProject is not running.
CliIdle ==
  /\ cliPc = "none"
  /\ projectOptions = [createInCurrentDir |-> FALSE, useTauri |-> FALSE,
                       useCoolify |-> FALSE, credentials |-> FALSE]
  /\ cwd = <<>> /\ dirs = {<<>>}
  /\ envFile = "none" /\ sent = {} /\ connected = "unknown" /\ generated = FALSE

\* Nothing has been applied on its own.
NoneApplied == fn = "none" /\ fnArg = <<>> /\ fnOut = <<>>

\* The state of a run at the entry of setupProjectInfrastructure.
RunStart ==
  /\ pc = "start" /\ op = "none" /\ idx = 0 /\ auxK = 0
  /\ result = NoResult
  /\ validatedProjectId = ""
  /\ network = "null"
  /\ services = <<>>
  /\ serverUuid = ""
  /\ environment = DefaultEnvironment
  /\ destinationUuid = ""
  /\ primaryError = NoError
  /\ lastError = NoError
  /\ req = NoReq /\ answered = NoReq /\ resp = -1
  /\ thrown = NoError /\ only404 = TRUE
  /\ created = <<>> /\ attempted = {} /\ failedSteps = {}
  /\ appFailed = FALSE /\ serversGet = "none"
  /\ outstanding = 0 /\ attemptsInOp = 0

Init ==
  /\ project \in ProjectInputs
  /\ \/ options \in OptionSets /\ platform = {200, 404}
     \/ options \in SampleOptions /\ platform = Status
  /\ RunStart
  /\ NoneApplied
  /\ CliIdle

\* A request that is sent and not waited for.
NotAwaited(n) == n

\* await this.client.get(...) / post(...): the code goes on when the request it
\* sent, if it sent one, has been answered; n requests were under way.
Awaited(n) == IF req = NoReq THEN n ELSE n - 1

\* this.client.get(...) / this.client.post(...): the next request leaves, if
\* the run did not end.
Issue ==
  /\ req' = IF pc' = "done" THEN NoReq ELSE NextRequest'
  /\ answered' = req
  /\ outstanding' = Awaited(outstanding) + (IF pc' = "done" THEN 0 ELSE 1)
  /\ attemptsInOp' =
       IF pc' \in {"primary", "neg", "mongo"}
         THEN (IF Resource(op') = Resource(op) THEN attemptsInOp ELSE 0) + 1
       ELSE IF pc' = "retry" THEN attemptsInOp
       ELSE 0
  /\ UNCHANGED <<applied, cli>>
  /\ attempted' = IF pc' \in {"primary", "neg", "retry", "mongo"}
                    THEN attempted \cup {Resource(op')} ELSE attempted

\* No createServiceWithFallback call is under way or just over.
NoCall == thrown' = NoError /\ only404' = TRUE

\* const validatedProjectId = this.validateProjectId(projectId), up to the
\* first POST of createProjectNetwork.
ValidateStep ==
  /\ pc = "start"
  /\ LET v == validateProjectId(project)
     IN IF v.ok
          THEN /\ validatedProjectId' = v.id
               /\ SetCtl(Goto("net", "network", 1, 0))
          ELSE /\ validatedProjectId' = ""
               /\ SetCtl(Catch(services, Error("Invalid project ID")))
  /\ UNCHANGED <<inputs, network, services, serverUuid, environment, destinationUuid,
                 primaryError, lastError, resp, thrown, only404, created,
                 failedSteps, appFailed, serversGet>>
  /\ Issue

\* createProjectNetwork after one of its POSTs.
createProjectNetwork ==
  /\ pc = "net"
  /\ \E s \in platform :
       /\ resp' = s
       /\ LET n == Len(networkEndpointsToTry(validatedProjectId))
              net == IF s = 200 THEN "app-network" ELSE "null"
          IN /\ network' = net
             /\ SetCtl(IF s # 200 /\ idx < n THEN Goto("net", "network", idx + 1, 0)
                       ELSE GoApp(services, net))
             /\ failedSteps' = IF s # 200 /\ idx = n THEN failedSteps \cup {"network"}
                               ELSE failedSteps
  /\ NoCall
  /\ UNCHANGED <<inputs, validatedProjectId, services, serverUuid, environment,
                 destinationUuid, primaryError, lastError, created, appFailed, serversGet>>
  /\ Issue

\* getServerUuid after its GET, inside createSvelteKitService.
getServerUuid ==
  /\ pc = "servers"
  /\ \E s \in platform : \E body \in Bodies(s, ServerLists) :
       /\ resp' = s
       /\ LET r == IF s = 200 THEN FirstServerUuid(body)
                   ELSE [ok |-> FALSE, uuid |-> "", error |-> HttpError(req, s)]
              unusable == s # 200 \/ ~body.isArray \/ Len(body.items) = 0
          IN /\ serverUuid' = r.uuid
             /\ SetCtl(IF r.ok THEN Goto("env", "env", 1, 0)
                       ELSE ServiceFailed("app", r.error, auxK, services, network))
             /\ appFailed' = ~r.ok
             /\ failedSteps' = IF r.ok THEN failedSteps ELSE failedSteps \cup {"app"}
             /\ serversGet' = IF unusable THEN "unusable" ELSE "listed"
  /\ NoCall
  /\ UNCHANGED <<inputs, validatedProjectId, network, services, environment,
                 destinationUuid, primaryError, lastError, created>>
  /\ Issue

\* getDefaultEnvironment after its GET.
getDefaultEnvironmentStep ==
  /\ pc = "env"
  /\ \E s \in platform : \E body \in Bodies(s, EnvironmentLists) :
       /\ resp' = s
       /\ environment' = getDefaultEnvironment(s = 200, body)
  /\ SetCtl(Goto("dest", "dest", 1, 0))
  /\ NoCall
  /\ UNCHANGED <<inputs, validatedProjectId, network, services, serverUuid,
                 destinationUuid, primaryError, lastError, created, failedSteps,
                 appFailed, serversGet>>
  /\ Issue

\* getDefaultDestinationUuid after its GET.
getDefaultDestinationUuidStep ==
  /\ pc = "dest"
  /\ \E s \in platform : \E body \in Bodies(s, DestinationLists) :
       /\ resp' = s
       /\ destinationUuid' = getDefaultDestinationUuid(s = 200, body)
  /\ SetCtl(Goto("primary", "app_primary", 1, 0))
  /\ NoCall
  /\ UNCHANGED <<inputs, validatedProjectId, network, services, serverUuid,
                 environment, primaryError, lastError, created, failedSteps,
                 appFailed, serversGet>>
  /\ Issue

\* createApplicationWithDockerImage after its POST, and the catch of
\* createSvelteKitService that starts the fallbacks.
createApplicationWithDockerImage ==
  /\ pc = "primary"
  /\ \E s \in platform : \E body \in Bodies(s, ServiceBodies("app")) :
       /\ resp' = s
       /\ LET svcs == IF s = 200 THEN Push(services, body) ELSE services
          IN /\ services' = svcs
             /\ SetCtl(IF s = 200 THEN After("app", auxK, svcs, network)
                       ELSE StartNegotiation("app_simplified", 0))
       /\ primaryError' = IF s = 200 THEN NoError ELSE HttpError(req, s)
       /\ serverUuid' = IF s = 200 THEN "" ELSE serverUuid
       /\ created' = IF s = 200 THEN Append(created, "app") ELSE created
  /\ environment' = DefaultEnvironment
  /\ destinationUuid' = ""
  /\ NoCall
  /\ UNCHANGED <<inputs, validatedProjectId, network, lastError, failedSteps, appFailed,
                 serversGet>>
  /\ Issue

\* One turn of the loop of createServiceWithFallback: the answer to the POST
\* (first or simplified) of candidate idx, and what the callers do when the
\* call returns or throws.
NegotiationStep(isRetry) ==
  /\ \E s \in platform : \E body \in Bodies(s, ServiceBodies(ServiceName(op))) :
       /\ resp' = s
       /\ LET err == HttpError(req, s)
              out == Outcome(s, isRetry, idx, NumCandidates)
              last == IF s = 200 THEN lastError ELSE RecordError(lastError, err, isRetry)
              svcs == IF out = "return" THEN Push(services, body) ELSE services
              c == CASE out = "return" -> After(Resource(op), auxK, svcs, network)
                     [] out = "retry" -> Goto("retry", op, idx, auxK)
                     [] out = "next" -> Goto("neg", op, idx + 1, auxK)
                     [] out = "throw" ->
                          NegotiationFailed(op, last, primaryError, auxK, services, network)
              first == idx = 1 /\ ~isRetry
          IN /\ services' = svcs
             /\ SetCtl(c)
             /\ lastError' = IF out \in {"retry", "next"} THEN last ELSE NoError
             /\ thrown' = IF out = "throw" THEN last ELSE NoError
             /\ primaryError' = IF c.op \in AppOps THEN primaryError ELSE NoError
             /\ serverUuid' = IF c.op \in AppOps THEN serverUuid ELSE ""
             /\ created' = IF s = 200 THEN Append(created, Resource(op)) ELSE created
             /\ only404' = IF out \in {"retry", "next"} THEN (first \/ only404) /\ s = 404
                          ELSE out = "throw" /\ (first \/ only404) /\ s = 404
             /\ failedSteps' = IF out = "throw" /\ op # "app_simplified"
                                 THEN failedSteps \cup {Resource(op)} ELSE failedSteps
             /\ appFailed' = (appFailed \/ (out = "throw" /\ op = "app_minimal"))
  /\ UNCHANGED <<inputs, validatedProjectId, network, environment, destinationUuid,
                 serversGet>>
  /\ Issue

createServiceWithFallback == pc = "neg" /\ NegotiationStep(FALSE)

createServiceWithFallbackRetry == pc = "retry" /\ NegotiationStep(TRUE)

\* createMongoDBService after its POST.
createMongoDBService ==
  /\ pc = "mongo"
  /\ \E s \in platform : \E body \in Bodies(s, ServiceBodies("mongodb")) :
       /\ resp' = s
       /\ LET svcs == IF s = 200 THEN Push(services, body) ELSE services
          IN /\ services' = svcs
             /\ SetCtl(IF s = 200 THEN After("mongodb", auxK, svcs, network)
                       ELSE ServiceFailed("mongodb", HttpError(req, s), auxK, services, network))
       /\ created' = IF s = 200 THEN Append(created, "mongodb") ELSE created
       /\ failedSteps' = IF s = 200 THEN failedSteps ELSE failedSteps \cup {"mongodb"}
  /\ NoCall
  /\ UNCHANGED <<inputs, validatedProjectId, network, serverUuid, environment,
                 destinationUuid, primaryError, lastError, appFailed, serversGet>>
  /\ Issue

\* linkServicesToNetwork after one of its POSTs, and the return statement.
linkServicesToNetwork ==
  /\ pc = "link"
  /\ \E s \in platform :
       /\ resp' = s
       /\ failedSteps' = IF s = 200 THEN failedSteps ELSE failedSteps \cup {"link"}
  /\ SetCtl(IF idx < Len(ServiceIds(services)) THEN Goto("link", "link", idx + 1, 0)
            ELSE Finish(Returned(services, network)))
  /\ NoCall
  /\ UNCHANGED <<inputs, data, created, appFailed, serversGet>>
  /\ Issue

Next ==
  \/ ValidateStep
  \/ createProjectNetwork
  \/ getServerUuid
  \/ getDefaultEnvironmentStep
  \/ getDefaultDestinationUuidStep
  \/ createApplicationWithDockerImage
  \/ createServiceWithFallback
  \/ createServiceWithFallbackRetry
  \/ createMongoDBService
  \/ linkServicesToNetwork

Spec == Init /\ [][Next]_vars

\* Every request of a run is answered or times out: the handler that waits
\* for the answer runs in the end.
LiveSpec == Init /\ [][Next]_vars /\ WF_vars(Next)

----------------------------------------------------------------------------
\* The functions and methods of the client applied on their own, each to
\* every argument of a bounded set.

run == <<inputs, ctl, data, http, observers>>

FnInit ==
  /\ project = StringProject("p1")
  /\ options = CHOOSE o \in SampleOptions : o.includeSvelteKit
  /\ platform = Status
  /\ RunStart
  /\ NoneApplied
  /\ CliIdle

\* fnOut = f(a) for the function named f.
Apply(f, a, r) ==
  /\ fn = "none"
  /\ fn' = f /\ fnArg' = a /\ fnOut' = r
  /\ UNCHANGED <<run, cli>>

\* Longest servers list.
MaxServers == 2

ServerUuids == <<"s1", "s2", "s3", "s4">>

ServerIds == <<"i1", "i2", "i3", "i4">>

\* The k-th server of a list, with or without uuid and id.
ServerEntries(k) == {[uuid |-> u, id |-> i] : u \in {"", ServerUuids[k]}, i \in {"", ServerIds[k]}}

\* Bodies of a 2xx answer to GET /api/v1/servers.
AllServerLists ==
  {[isArray |-> FALSE, items |-> <<>>]} \cup
  {[isArray |-> TRUE, items |-> q] :
     q \in UNION {{l \in [1..n -> UNION {ServerEntries(k) : k \in 1..n}] :
                     \A k \in 1..n : l[k] \in ServerEntries(k)} : n \in 0..MaxServers}}

\* getServerUuid on a 2xx answer.
getServerUuidApplied ==
  \E body \in AllServerLists : Apply("getServerUuid", body, FirstServerUuid(body))

\* Longest environments list.
MaxEnvironments == 3

EnvironmentUuids == <<"e1", "e2", "e3", "e4">>

\* Bodies of a 2xx answer to GET /api/v1/environments: the lists of the runs,
\* and every list of entries named production, prod or staging in which the
\* k-th entry has the k-th uuid.
AllEnvironmentLists ==
  EnvironmentLists \cup
  {[isArray |-> TRUE,
    items |-> [k \in 1..Len(names) |-> [name |-> names[k], uuid |-> EnvironmentUuids[k], id |-> ""]]] :
     names \in UNION {[1..n -> {"production", "prod", "staging"}] : n \in 1..MaxEnvironments}}

\* getDefaultEnvironment after its GET, answered 2xx (ok) or not.
getDefaultEnvironmentApplied ==
  \E ok \in BOOLEAN : \E body \in AllEnvironmentLists :
     Apply("getDefaultEnvironment", [ok |-> ok, body |-> body], getDefaultEnvironment(ok, body))

\* Most path segments of a base URL.
MaxSegments == 3

\* The path segments joined with '/' in front of each.
RECURSIVE Path(_)
Path(segments) ==
  IF segments = <<>> THEN <<>> ELSE <<"/", Head(segments)>> \o Path(Tail(segments))

\* Base URLs: scheme and host, then a path.
BaseUrls ==
  {<<"https://h">> \o Path(segments) :
     segments \in UNION {[1..n -> {"api", "v1", "x"}] : n \in 0..MaxSegments}}

\* new CoolifyClient(...) for a base URL as it is, with a slash, with
\* '/api/v1' and with blanks around it.
constructorApplied ==
  \E h \in BaseUrls :
     Apply("constructor", h,
           [bare |-> cleanUrl(h),
            slash |-> cleanUrl(h \o <<"/">>),
            api |-> cleanUrl(h \o ApiV1),
            blanks |-> cleanUrl(<<" ">> \o h \o <<" ">>)])

\* Longest image string, in tokens.
MaxImageLen == 7

\* Image strings: '/', ':' and a piece of text without either.
ImageStrings == UNION {[1..n -> {"/", ":", "a"}] : n \in 0..MaxImageLen}

parseDockerImageApplied ==
  \E image \in ImageStrings : Apply("parseDockerImage", image, parseDockerImage(image))

\* Identifier values of a project response.
IdValues == {Undefined, Str(""), Str("p1"), Str("p2"), Num(0), Num(7), EmptyArray}

\* Bodies of the answer to POST /api/v1/projects.
ProjectBodies ==
  [isNull : {FALSE}, id : IdValues, uuid : IdValues,
   data : [isObject : BOOLEAN, id : {Undefined, Str("p2"), Num(7), EmptyArray}]]
  \cup {[isNull |-> TRUE, id |-> Undefined, uuid |-> Undefined,
          data |-> [isObject |-> FALSE, id |-> Undefined]]}

createProjectApplied ==
  \E ok \in BOOLEAN : \E body \in ProjectBodies :
     Apply("createProject", [ok |-> ok, body |-> body], createProject(ok, body))

FnNext ==
  \/ getServerUuidApplied
  \/ getDefaultEnvironmentApplied
  \/ constructorApplied
  \/ parseDockerImageApplied
  \/ createProjectApplied

FnSpec == FnInit /\ [][FnNext]_vars

----------------------------------------------------------------------------
\* The command createProject of create.ts.  Every step is one action: the
\* commands it runs and the calls it makes end well or fail, by choice.

ProjectName == "my-app"

\* path.join(process.cwd(), options.projectName), or process.cwd() when the
\* project is created in the current directory.
ProjectPath(inPlace) == IF inPlace THEN cwd ELSE cwd \o <<ProjectName>>

\* process.cwd() after the try/catch of setupTauriIntegration and of
\* addAdditionalDependencies.  The try saves originalCwd, changes into the
\* project directory (process.chdir throws when it does not exist), runs its
\* commands and changes back; the catch reads process.cwd() into a new
\* originalCwd and changes into that.
ChdirTryCatch(inPlace, commandsFail) ==
  LET originalCwd == cwd
      projectPath == ProjectPath(inPlace)
  IN IF inPlace THEN cwd
     ELSE IF projectPath \notin dirs THEN LET caught == cwd IN caught
     ELSE IF commandsFail THEN LET caught == projectPath IN caught
     ELSE originalCwd

\* All ProjectOptions that matter to the steps; credentials: coolifyUrl and
\* coolifyApiToken are both given.
AllProjectOptions ==
  [createInCurrentDir : BOOLEAN, useTauri : BOOLEAN, useCoolify : BOOLEAN,
   credentials : BOOLEAN]

CliInit ==
  /\ project = StringProject("p1")
  /\ options = CHOOSE o \in SampleOptions : o.includeSvelteKit
  /\ platform = Status
  /\ RunStart
  /\ NoneApplied
  /\ cliPc = "create"
  /\ projectOptions \in AllProjectOptions
  /\ cwd = <<>>
  /\ dirs \in {{<<>>}, {<<>>, <<ProjectName>>}}
  /\ envFile = "none" /\ sent = {} /\ connected = "unknown" /\ generated = FALSE

\* The step after createSvelteKitProject, and after setupTauriIntegration.
AfterTauri == IF projectOptions.useCoolify THEN "coolify" ELSE "generate"

\* createSvelteKitProject up to its call of addAdditionalDependencies: an
\* existing directory or a failed sv create ends the command.
createSvelteKitProject ==
  /\ cliPc = "create"
  /\ \E svCreate \in BOOLEAN :
       IF (~projectOptions.createInCurrentDir /\ ProjectPath(FALSE) \in dirs) \/ ~svCreate
         THEN cliPc' = "aborted" /\ dirs' = dirs
         ELSE cliPc' = "deps" /\ dirs' = dirs \cup {ProjectPath(projectOptions.createInCurrentDir)}
  /\ UNCHANGED <<projectOptions, cwd, envFile, sent, connected, generated, run, applied>>

\* addAdditionalDependencies: sv add runs in the project directory; when it
\* fails the manual installation runs in the catch.
addAdditionalDependencies ==
  /\ cliPc = "deps"
  /\ \E svAdd \in BOOLEAN :
       cwd' = ChdirTryCatch(projectOptions.createInCurrentDir, ~svAdd)
  /\ cliPc' = (IF projectOptions.useTauri THEN "tauri" ELSE AfterTauri)
  /\ UNCHANGED <<projectOptions, dirs, envFile, sent, connected, generated, run, applied>>

\* setupTauriIntegration: the npm and tauri commands run in the project
\* directory; a failure is reported and the command goes on.
setupTauriIntegration ==
  /\ cliPc = "tauri"
  /\ \E commands \in BOOLEAN :
       cwd' = ChdirTryCatch(projectOptions.createInCurrentDir, ~commands)
  /\ cliPc' = AfterTauri
  /\ UNCHANGED <<projectOptions, dirs, envFile, sent, connected, generated, run, applied>>

\* The calls of setupCoolifyDeployment, in the order it makes them.
CoolifyCalls == <<"testConnection", "createProject", "setupProjectInfrastructure", "getServiceWebhook">>

\* createEnvironmentFile(projectDir, ...): fs.writeFile needs the directory
\* of the .env file to exist.
createEnvironmentFile(inPlace) == ProjectPath(inPlace) \in dirs

\* setupCoolifyDeployment: failAt is the call that fails (testConnection by
\* returning false), 0 when none does.  The .env file is written at the end
\* of the try, and with the credentials alone in the catch.
setupCoolifyDeployment ==
  /\ cliPc = "coolify"
  /\ IF ~projectOptions.credentials
       THEN /\ cliPc' = "generate"
            /\ UNCHANGED <<envFile, sent, connected>>
       ELSE \E failAt \in 0..Len(CoolifyCalls) :
              LET made == IF failAt = 0 THEN Len(CoolifyCalls) ELSE failAt
                  written == createEnvironmentFile(projectOptions.createInCurrentDir)
              IN /\ sent' = {CoolifyCalls[i] : i \in 1..made}
                 /\ connected' = IF failAt = 1 THEN "false" ELSE "true"
                 /\ envFile' = IF ~written THEN envFile
                               ELSE IF failAt = 0 THEN "all" ELSE "credentials"
                 /\ cliPc' = IF written THEN "generate" ELSE "aborted"
  /\ UNCHANGED <<projectOptions, cwd, dirs, generated, run, applied>>

\* generateProjectFiles: it throws when the project directory does not exist
\* or a file cannot be written.
generateProjectFiles ==
  /\ cliPc = "generate"
  /\ \E files \in BOOLEAN :
       IF ProjectPath(projectOptions.createInCurrentDir) \in dirs /\ files
         THEN cliPc' = "done" /\ generated' = TRUE
         ELSE cliPc' = "aborted" /\ generated' = FALSE
  /\ UNCHANGED <<projectOptions, cwd, dirs, envFile, sent, connected, run, applied>>

CliNext ==
  \/ createSvelteKitProject
  \/ addAdditionalDependencies
  \/ setupTauriIntegration
  \/ setupCoolifyDeployment
  \/ generateProjectFiles

CliSpec == CliInit /\ [][CliNext]_vars

----------------------------------------------------------------------------
\* Properties of createServiceWithFallback

\* Two requests of the same createServiceWithFallback call (a run calls it at
\* most once per operation).
SameCall(r1, r2) == IsNegotiated(r1) /\ IsNegotiated(r2) /\ r1.op = r2.op

\* C1: within one createServiceWithFallback call the candidates are POSTed
\* strictly in table order, candidate i+1 only after candidate i failed, and
\* a 2xx answer to any POST of the call ends the call with that answer (it is
\* pushed to services by the caller) and no further POST of the call follows.
C1_CandidatesInOrder ==
  [][ /\ IsNegotiated(req') =>
          /\ req'.idx \in 1..NumCandidates
          /\ req'.path = Candidates'[req'.idx].url
          /\ IF SameCall(req, req')
               THEN /\ resp' # 200
                    /\ \/ req'.idx = req.idx /\ req'.retry /\ ~req.retry
                       \/ req'.idx = req.idx + 1 /\ ~req'.retry
               ELSE req'.idx = 1 /\ ~req'.retry
      /\ (IsNegotiated(req) /\ resp' = 200) =>
          /\ ~SameCall(req, req')
          /\ \E b \in ServiceBodies(ServiceName(req.op)) : services' = Append(services, b)
    ]_vars

\* A call returned the 2xx answer of its third candidate.
C1_Witness ==
  /\ IsNegotiated(answered) /\ answered.idx = 3 /\ resp = 200
  /\ Len(services) > 0 /\ ~SameCall(answered, req)

\* The fields of the simplified payload.
MinimalFields == {"name", "docker_image", "project_uuid"}

\* C2: within one createServiceWithFallback call a second POST goes to the
\* same candidate path iff the first POST to that path was answered 422; it is
\* sent once, carries the minimized payload (name, image, project reference),
\* and when it fails, with whatever status, the next candidate is tried (or
\* the call ends after the last one).
C2_RetryOnlyOn422 ==
  [][ IsNegotiated(req) =>
        /\ (SameCall(req, req') /\ req'.path = req.path) <=> (~req.retry /\ resp' = 422)
        /\ (SameCall(req, req') /\ req'.path = req.path) =>
              /\ req'.retry
              /\ MinimalFields \subseteq DOMAIN req'.payload
              /\ DOMAIN req'.payload \subseteq MinimalFields \cup {"docker_image_tag"}
              /\ req'.payload.name = ServiceName(req.op)
              /\ req'.payload.project_uuid = validatedProjectId
              /\ req'.payload.docker_image # <<>>
        /\ (req.retry /\ resp' # 200) =>
              IF req.idx < NumCandidates
                THEN SameCall(req, req') /\ req'.idx = req.idx + 1 /\ ~req'.retry
                ELSE ~SameCall(req, req') /\ thrown' # NoError
    ]_vars

\* A simplified-payload POST was itself answered 422 and the next candidate
\* is being tried.
C2_Witness ==
  /\ IsNegotiated(answered) /\ answered.retry /\ resp = 422
  /\ SameCall(answered, req) /\ req.idx = answered.idx + 1 /\ ~req.retry

\* C3: when every candidate of a createServiceWithFallback call failed, the
\* call rejects with the error of the last non-2xx answer (or transport
\* failure) it observed over all its POSTs, simplified-payload retries
\* included.  thrown, answered and resp are those of the moment the call ended.
C3_LastObservedError ==
  thrown # NoError => thrown = HttpError(answered, resp)

----------------------------------------------------------------------------
\* Properties of setupProjectInfrastructure

Requested(o) ==
  CASE o = "app" -> options.includeSvelteKit /\ options.dockerImage # <<>>
    [] o \in {"pocketbase", "mongodb"} -> options.includeDatabase = o
    [] o = "redis" -> options.includeRedis
    [] o \in AuxKinds -> \E i \in DOMAIN options.includeServices : options.includeServices[i] = o

\* C4: once the requested application creation has failed the run is over:
\* no request is outstanding from then on, and no database, cache or
\* auxiliary-service creation was ever requested from the platform.
C4_AppFailureStopsRun ==
  appFailed => /\ Requested("app")
               /\ pc = "done" /\ req = NoReq
               /\ attempted \subseteq {"app"}

\* The application failed in a run that asked for a database, a cache and
\* two auxiliary services, with the network created.
C4_Witness ==
  /\ appFailed /\ pc = "done" /\ network # "null"
  /\ options.includeDatabase # "null" /\ options.includeRedis
  /\ Len(options.includeServices) = 2

\* C5 as stated: when the application step failed the caller is handed a
\* report holding both the services created before and the fatal error.
C5_ReportWithFatalError ==
  (pc = "done" /\ appFailed) =>
     /\ result.kind = "returned"
     /\ result.services = services
     /\ result.error # NoError

\* C5 amended: when the application step failed the run rejects with the
\* error createSvelteKitService threw (that of the servers lookup or that of
\* the primary creation POST); the caller is handed no services list, and
\* the list is empty at that point.
C5_AppFailureRejects ==
  (pc = "done" /\ appFailed) =>
     /\ result.kind = "rejected"
     /\ result.error # NoError
     /\ result.error.kind = "http" => result.error.op \in {"servers", "app_primary"}
     /\ result.services = <<>> /\ services = <<>>

\* The run rejected with the error of the primary POST after both fallbacks
\* had failed as well.
C5_Witness ==
  /\ pc = "done" /\ appFailed /\ result.kind = "rejected"
  /\ result.error.kind = "http" /\ result.error.op = "app_primary"
  /\ answered.op = "app_minimal" /\ network # "null"

OptionalResources == {"pocketbase", "mongodb", "redis"} \cup AuxKinds

\* C6: a failure to create the database, the cache or an auxiliary service
\* is not fatal: the step that fails leaves services as it was, the run goes
\* on to attempt every later requested resource, and it ends returning a
\* result that holds the services collected.
C6_OptionalFailuresNonFatal ==
  [][ /\ \A o \in OptionalResources :
           (o \in failedSteps' /\ o \notin failedSteps) => services' = services
      /\ (pc' = "done" /\ failedSteps' \cap OptionalResources # {}) =>
           /\ result'.kind = "returned"
           /\ result'.services = services'
           /\ \A o \in OptionalResources : Requested(o) => o \in attempted'
    ]_vars

\* The database, the cache and the first auxiliary service failed; the
\* second auxiliary service was still created and is what the run returned.
C6_Witness ==
  /\ pc = "done" /\ result.kind = "returned"
  /\ {"mongodb", "redis", "litellm"} \subseteq failedSteps
  /\ created = <<"qdrant">> /\ Len(result.services) = 1

\* The resources a run asks for, in the order it creates them.
CreationOrder ==
  (IF Requested("app") THEN <<"app">> ELSE <<>>)
  \o (IF options.includeDatabase # "null" THEN <<options.includeDatabase>> ELSE <<>>)
  \o (IF options.includeRedis THEN <<"redis">> ELSE <<>>)
  \o options.includeServices

\* q lists some of the entries of r, in r's order, each at most once.
IsSubSeq(q, r) ==
  \E f \in [1..Len(q) -> 1..Len(r)] :
     /\ \A i \in 1..Len(q) : q[i] = r[f[i]]
     /\ \A i, j \in 1..Len(q) : i < j => f[i] < f[j]

\* C7: at every point of a run services holds exactly the requested
\* resources whose creation POST was answered 2xx so far, once each, in
\* creation order (application, database, cache, auxiliary services in
\* request order), nothing for a failed or unrequested resource; a returned
\* result holds that list; a run asking only for the application in which
\* no step failed returns exactly one service.
C7_ServicesAreTheCreated ==
  /\ Len(services) = Len(created)
  /\ \A i \in 1..Len(services) :
        /\ services[i].name = created[i]
        /\ Requested(created[i])
        /\ created[i] \notin failedSteps
  /\ IsSubSeq(created, CreationOrder)
  /\ result.kind = "returned" => result.services = services
  /\ (/\ pc = "done" /\ project.str # "" /\ failedSteps = {}
      /\ Requested("app") /\ CreationOrder = <<"app">>) =>
        (result.kind = "returned" /\ Len(result.services) = 1)

\* Application, cache and two auxiliary services, qdrant asked for first,
\* were created after the database had failed.
C7_Witness ==
  /\ pc = "done" /\ "pocketbase" \in failedSteps
  /\ result.kind = "returned"
  /\ [i \in 1..Len(result.services) |-> result.services[i].name]
        = <<"app", "redis", "qdrant", "litellm">>

\* C8: given a non-empty project id the run returns a result whatever fails
\* among network creation, database, cache, auxiliary services and network
\* linking; it ends with an error exactly when the application step failed.
C8_OnlyAppFailureRejects ==
  (pc = "done" /\ project.str # "") =>
     /\ result.kind \in {"returned", "rejected"}
     /\ result.kind = "rejected" <=> appFailed

\* Network creation, the database, an auxiliary service and a link request
\* failed and the run returned.
C8_Witness ==
  /\ pc = "done" /\ result.kind = "returned"
  /\ {"network", "mongodb", "litellm", "link"} \subseteq failedSteps

\* C9: a run goes through validation, network creation, application,
\* database, cache, auxiliary services and network linking in this order: a
\* request is sent only with a validated, non-empty project id, the first
\* one creates the network, none belongs to an earlier phase than the
\* request before it, and a run given an empty id rejects without a request.
C9_PhaseOrder ==
  [][ /\ req' # NoReq =>
           /\ project.str # "" /\ validatedProjectId' = project.str
           /\ req'.phase \in 1..6
           /\ req'.phase = Phase(req'.op)
           /\ IF req = NoReq THEN req'.phase = 1 ELSE req.phase <= req'.phase
      /\ project.str = "" =>
           (req' = NoReq /\ pc' = "done" /\ result'.kind = "rejected")
    ]_vars

\* The first link request leaves after an auxiliary service's, in a run that
\* created network, application, database and cache before.
C9_Witness ==
  /\ req.op = "link" /\ req.phase = 6 /\ answered.phase = 5
  /\ created = <<"app", "pocketbase", "redis", "litellm">>
  /\ network # "null"

\* A POST that creates the application.
IsAppCreation(r) == r.method = "POST" /\ r.phase = 2

\* C10: the application is never created without a server: when the servers
\* GET fails or lists no server (no array, or an empty one)
\* createSvelteKitService rejects and no application-creation POST is sent;
\* whenever such a POST is sent the servers GET was answered with a list
\* before.
C10_NoAppWithoutServer ==
  /\ (IsAppCreation(req) \/ IsAppCreation(answered) \/ "app" \in attempted) =>
        serversGet = "listed"
  /\ serversGet = "unusable" =>
        /\ appFailed /\ pc = "done" /\ result.kind = "rejected"
        /\ "app" \notin attempted /\ req = NoReq

\* The servers GET was answered 2xx without a server in it and the run
\* rejected.
C10_Witness ==
  /\ serversGet = "unusable" /\ resp = 200 /\ answered.op = "servers"
  /\ pc = "done" /\ result.kind = "rejected"

\* C13: environment and destination discovery fail softly: after the
\* environments GET the destinations GET follows and after it the primary
\* application POST, whatever the answers; when the environment lookup
\* failed the POST names environment 'production' and has no
\* environment_uuid, when the destination lookup failed it has no
\* destination_uuid.
C13_DiscoverySoftFail ==
  [][ /\ pc = "env" =>
           /\ pc' = "dest" /\ ~appFailed'
           /\ req'.method = "GET" /\ req'.path = <<"api", "v1", "destinations">>
           /\ resp' # 200 => environment' = [name |-> "production", uuid |-> ""]
      /\ pc = "dest" =>
           /\ pc' = "primary" /\ ~appFailed'
           /\ req'.method = "POST"
           /\ req'.path = <<"api", "v1", "applications", "dockerimage">>
           /\ resp' # 200 => "destination_uuid" \notin DOMAIN req'.payload
           /\ environment = [name |-> "production", uuid |-> ""] =>
                 /\ req'.payload.environment_name = "production"
                 /\ "environment_uuid" \notin DOMAIN req'.payload
    ]_vars

\* Both lookups failed and the primary application POST is under way
\* without environment_uuid and destination_uuid.
C13_Witness ==
  /\ req.op = "app_primary" /\ answered.op = "dest" /\ resp = 404
  /\ environment = [name |-> "production", uuid |-> ""] /\ destinationUuid = ""
  /\ req.payload.environment_name = "production"
  /\ DOMAIN req.payload \cap {"environment_uuid", "destination_uuid"} = {}

\* The payload carries the field with the value.
FieldIs(payload, field, value) == field \in DOMAIN payload /\ payload[field] = value

C17_AtMostSixAttempts ==
  attemptsInOp <= 6

\* C17 amended: one createServiceWithFallback call attempts at most 6
\* candidates, so pocketbase, redis, litellm and qdrant take at most 6
\* first-attempt POSTs each; the application operation takes at most 13,
\* its primary POST and two negotiations of at most 6 candidates each.
C17_AttemptsBounded ==
  /\ IsNegotiated(req) => req.idx \in 1..6
  /\ attemptsInOp <= (IF Resource(op) = "app" THEN 13 ELSE 6)
  /\ req.op = "app_primary" => attemptsInOp = 1
  /\ req.op = "app_simplified" => attemptsInOp = 1 + req.idx
  /\ req.op = "app_minimal" => attemptsInOp = 7 + req.idx
  /\ req.op \in {"pocketbase", "redis", "litellm", "qdrant"} => attemptsInOp = req.idx

\* The application operation is at its thirteenth first-attempt POST.
C17_Witness ==
  /\ attemptsInOp = 13 /\ req.op = "app_minimal" /\ req.idx = 6 /\ ~req.retry

\* C18: at most one HTTP request is outstanding at any time: a request leaves
\* only when the previous request of the run has been answered, and none is
\* under way when the run has returned.
C18_OneRequestAtATime ==
  /\ outstanding \in {0, 1}
  /\ (req # NoReq) <=> (outstanding = 1)
  /\ pc = "done" => outstanding = 0

\* A request is under way after an earlier request of the run was answered.
C18_Witness ==
  /\ req # NoReq /\ answered # NoReq /\ outstanding = 1 /\ pc = "link"

\* C19: negotiation keeps no state between calls. Every call starts at the
\* first candidate with no error recorded, whatever the calls before it did
\* (also when an earlier call succeeded on a later candidate), and within a
\* call the next request and the way the call ends are determined by the
\* request just answered and its answer alone.
C19_NoStateBetweenCalls ==
  [][ /\ (IsNegotiated(req') /\ ~SameCall(req, req')) =>
          /\ req'.idx = 1 /\ ~req'.retry
          /\ req'.path = <<"api", "v1", "applications", "dockerimage">>
          /\ lastError' = NoError
      /\ IsNegotiated(req) =>
          LET again == resp' = 422 /\ ~req.retry
          IN /\ SameCall(req, req') <=> (resp' # 200 /\ (again \/ req.idx < 6))
             /\ SameCall(req, req') =>
                   /\ req'.idx = (IF again THEN req.idx ELSE req.idx + 1)
                   /\ req'.retry = again
             /\ (thrown' # NoError) <=> (resp' # 200 /\ ~SameCall(req, req'))
    ]_vars

\* A call starts at the first candidate right after another call returned
\* the 2xx answer of its fourth candidate.
C19_Witness ==
  /\ IsNegotiated(req) /\ req.idx = 1 /\ ~req.retry
  /\ IsNegotiated(answered) /\ answered.idx = 4 /\ resp = 200
  /\ answered.op # req.op

\* The path of the POST that links service id to the project's network.
LinkPath(pid, id) == <<"api", "v1", "projects", pid, "services", id, "networks">>

\* C21: after all resource creations have been attempted exactly one link
\* POST is issued for each created service that has a non-empty id, in
\* creation order, and none for a service without an id; a failed link POST
\* does not keep the later link POSTs from being sent and never makes the run
\* fail.
C21_OneLinkPerServiceWithId ==
  [][ LET ids == ServiceIds(services')
      IN /\ req'.op = "link" =>
              /\ req'.idx \in 1..Len(ids)
              /\ req'.path = LinkPath(validatedProjectId', ids[req'.idx])
              /\ req'.idx = (IF req.op = "link" THEN req.idx + 1 ELSE 1)
              /\ services' = services \/ req.op # "link"
         /\ (pc' = "done" /\ pc # "done" /\ Len(ids) > 0) =>
              /\ req.op = "link" /\ req.idx = Len(ids)
              /\ result' = Returned(services', network')
         /\ (pc' = "done" /\ pc # "done" /\ Len(ids) = 0) => req.op # "link"
    ]_vars

\* The first POST that tries to create a resource.
IsFirstAttempt(r) ==
  /\ IsCreatePost(r) /\ ~r.retry
  /\ \/ r.op \in {"app_primary", "mongodb"}
     \/ r.op \in {"pocketbase", "redis"} \cup AuxKinds /\ r.idx = 1

C23_AppPostsCarryServerUuid ==
  IsAppCreation(req) => (serverUuid # "" /\ FieldIs(req.payload, "server_uuid", serverUuid))

\* The three approaches of createSvelteKitService.
Approaches == <<"app_primary", "app_simplified", "app_minimal">>

\* C24: createSvelteKitService tries the primary POST to
\* /api/v1/applications/dockerimage with the full payload, then the
\* simplified-payload fallback, then the minimal-payload fallback, each only
\* after the one before it failed; the first success is returned; when all
\* three fail it rejects with the error of the primary attempt.
C24_ThreeApproachesInOrder ==
  [][ /\ req'.op = "app_primary" =>
           /\ req.op \notin {Approaches[i] : i \in 1..3}
           /\ req'.path = <<"api", "v1", "applications", "dockerimage">>
           /\ primaryError' = NoError
      /\ \A i \in 2..3 :
           (req'.op = Approaches[i] /\ req.op # Approaches[i]) =>
              /\ req.op = Approaches[i - 1] /\ resp' # 200
              /\ i = 3 => primaryError' = primaryError
              /\ primaryError'.kind = "http" /\ primaryError'.op = "app_primary"
              /\ services' = services
      /\ \A i \in 1..3 :
           (req.op = Approaches[i] /\ resp' = 200) =>
              /\ req'.op \notin {Approaches[j] : j \in 1..3}
              /\ \E b \in ServiceBodies("app") : services' = <<b>>
              /\ ~appFailed'
      /\ (req.op \in {Approaches[i] : i \in 1..3} /\ result'.kind = "rejected") =>
              /\ req.op = "app_minimal" /\ resp' # 200
              /\ result'.error = primaryError
              /\ result'.error.op = "app_primary" /\ result'.error.kind = "http"
    ]_vars

\* All three approaches failed and the run rejected with the error of the
\* primary POST, which was answered otherwise than the last fallback POST.
C24_Witness ==
  /\ pc = "done" /\ answered.op = "app_minimal" /\ result.kind = "rejected"
  /\ result.error.op = "app_primary" /\ result.error.status = 500 /\ resp = 404

\* C25 as stated: link requests are issued only in runs where network
\* creation succeeded; when createProjectNetwork returned null no POST to
\* /api/v1/projects/{id}/services/{serviceId}/networks is made.
C25_LinkOnlyWithNetwork ==
  req.op = "link" => network # "null"

\* A 2xx answer without a body left a null entry in the list: the error
\* raised after services were added (services.map(s => s.id) throws on it).
HasNullEntry(svcs) == \E i \in 1..Len(svcs) : svcs[i].isNull

\* C26: an error raised inside setupProjectInfrastructure after at least one
\* service has been added to the services list does not make the call
\* reject: it returns the services created so far with network null, also
\* when a network was created; the call rejects only when the list is empty
\* at the time of the error.
C26_PartialResultOnError ==
  pc = "done" =>
    /\ HasNullEntry(services) =>
         /\ result = Returned(services, "null")
         /\ Len(result.services) > 0
    /\ result.kind = "rejected" =>
         /\ services = <<>> /\ result.error # NoError
    /\ (result.kind = "returned" /\ ~HasNullEntry(services)) =>
         result = Returned(services, network)

\* The application and the database were created, a network too; the error
\* raised at the linking step ended the run with both services and no network.
C26_Witness ==
  /\ pc = "done" /\ HasNullEntry(services) /\ Len(services) = 2
  /\ network # "null" /\ result.kind = "returned" /\ result.network = "null"
  /\ result.services = services

\* The steps of a run that send requests, in the order the run takes them:
\* the network, the three GETs and the three approaches of the application,
\* the database, the cache, the auxiliary services by position, the linking.
StepOf(r) ==
  CASE r.op = "network" -> 1
    [] r.op = "servers" -> 2
    [] r.op = "env" -> 3
    [] r.op = "dest" -> 4
    [] r.op = "app_primary" -> 5
    [] r.op = "app_simplified" -> 6
    [] r.op = "app_minimal" -> 7
    [] r.op \in {"pocketbase", "mongodb"} -> 8
    [] r.op = "redis" -> 9
    [] r.op \in AuxKinds -> 9 + r.auxK
    [] r.op = "link" -> 10 + MaxAux

\* The most requests step i can send in a run with options o: three network
\* endpoints, two POSTs for each of the six candidates of a negotiation, one
\* POST for mongodb, one link POST for each resource asked for.
StepSize(o, i) ==
  LET app == o.includeSvelteKit /\ o.dockerImage # <<>>
  IN CASE i = 1 -> 3
       [] i \in 2..5 -> IF app THEN 1 ELSE 0
       [] i \in 6..7 -> IF app THEN 12 ELSE 0
       [] i = 8 -> IF o.includeDatabase = "pocketbase" THEN 12
                   ELSE IF o.includeDatabase = "mongodb" THEN 1 ELSE 0
       [] i = 9 -> IF o.includeRedis THEN 12 ELSE 0
       [] i \in 10..(9 + MaxAux) -> IF i - 9 <= Len(o.includeServices) THEN 12 ELSE 0
       [] i = 10 + MaxAux ->
            (IF app THEN 1 ELSE 0) + (IF o.includeDatabase # "null" THEN 1 ELSE 0)
            + (IF o.includeRedis THEN 1 ELSE 0) + Len(o.includeServices)

RECURSIVE StepSizes(_, _)
StepSizes(o, n) == IF n = 0 THEN 0 ELSE StepSizes(o, n - 1) + StepSize(o, n)

\* A number that depends on the options alone.
MaxRequests(o) == StepSizes(o, 10 + MaxAux)

\* The place of a request within its step, and within the run.
PlaceInStep(r) ==
  IF IsNegotiated(r) THEN 2 * (r.idx - 1) + (IF r.retry THEN 2 ELSE 1) ELSE r.idx

Slot(r) == StepSizes(options, StepOf(r) - 1) + PlaceInStep(r)

\* C30: every call of setupProjectInfrastructure terminates for every
\* sequence of HTTP outcomes, provided every request is answered or times
\* out: each request takes a later slot than the one before it, a slot of a
\* step the options ask for, so a run sends at most MaxRequests(options)
\* requests whatever the answers are; and in the end the run has returned or
\* rejected with no request under way.
C30_RunTerminates ==
  /\ [][ (req # NoReq /\ req' # NoReq) => (Slot(req') > Slot(req)) ]_vars
  /\ [](req # NoReq =>
          /\ PlaceInStep(req) \in 1..StepSize(options, StepOf(req))
          /\ Slot(req) \in 1..MaxRequests(options))
  /\ <>[](pc = "done" /\ req = NoReq /\ result.kind \in {"returned", "rejected"})

\* A run with every resource asked for has its last request under way, in
\* the last slot there is for its options.
C30_Witness ==
  /\ req.op = "link" /\ Slot(req) = MaxRequests(options)
  /\ Len(CreationOrder) = 3 + MaxAux

----------------------------------------------------------------------------
\* Properties of the functions of the client

\* C11: for every non-empty servers list getServerUuid returns the
\* identifier of the first element, its uuid, else its id, never that of a
\* later element; when the first element has no identifier it fails.
C11_FirstServerOnly ==
  (fn = "getServerUuid" /\ fnArg.isArray /\ Len(fnArg.items) > 0) =>
     LET first == fnArg.items[1]
     IN IF first.uuid # "" THEN fnOut.ok /\ fnOut.uuid = first.uuid
        ELSE IF first.id # "" THEN fnOut.ok /\ fnOut.uuid = first.id
        ELSE ~fnOut.ok /\ fnOut.uuid = ""

\* The first server has no identifier, the second has one, and
\* getServerUuid failed.
C11_Witness ==
  /\ fn = "getServerUuid" /\ fnArg.isArray /\ Len(fnArg.items) = 2
  /\ fnArg.items[1] = [uuid |-> "", id |-> ""]
  /\ fnArg.items[2].uuid = "s2"
  /\ ~fnOut.ok

\* What getDefaultEnvironment returns for the entry e it selected.
EnvironmentOf(e) ==
  [name |-> IF e.name # "" THEN e.name ELSE "production",
   uuid |-> IF e.uuid # "" THEN e.uuid ELSE e.id]

\* The positions of the entries of an environments list with one of the names.
EntriesNamed(items, names) == {k \in 1..Len(items) : items[k].name \in names}

\* The answer to the environments GET carries no entry.
NoEnvironment(a) == ~a.ok \/ ~a.body.isArray \/ Len(a.body.items) = 0

\* C12 as stated: getDefaultEnvironment selects an entry named 'production'
\* if there is one, otherwise one named 'prod' if there is one, otherwise the
\* first entry, in whatever order the list is; without a list it returns the
\* default.
C12_ProductionBeforeProd ==
  fn = "getDefaultEnvironment" =>
     IF NoEnvironment(fnArg) THEN fnOut = [name |-> "production", uuid |-> ""]
     ELSE LET items == fnArg.body.items
              production == EntriesNamed(items, {"production"})
              prod == EntriesNamed(items, {"prod"})
          IN IF production # {} THEN \E k \in production : fnOut = EnvironmentOf(items[k])
             ELSE IF prod # {} THEN \E k \in prod : fnOut = EnvironmentOf(items[k])
             ELSE fnOut = EnvironmentOf(items[1])

\* C12 amended: getDefaultEnvironment selects the first entry, in list
\* order, that is named 'production' or 'prod', otherwise the first entry;
\* for an empty list, a body that is no array or a failed request it returns
\* the default {name: 'production', uuid: ''}.
C12_FirstProductionOrProd ==
  fn = "getDefaultEnvironment" =>
     IF NoEnvironment(fnArg) THEN fnOut = [name |-> "production", uuid |-> ""]
     ELSE LET items == fnArg.body.items
              either == EntriesNamed(items, {"production", "prod"})
          IN IF either # {}
               THEN \E k \in either : /\ \A j \in either : k <= j
                                       /\ fnOut = EnvironmentOf(items[k])
               ELSE fnOut = EnvironmentOf(items[1])

\* 'prod' is listed before 'production' and is the one selected.
C12_Witness ==
  /\ fn = "getDefaultEnvironment" /\ fnArg.ok /\ Len(fnArg.body.items) = 3
  /\ fnArg.body.items[1].name = "staging"
  /\ fnArg.body.items[2].name = "prod"
  /\ fnArg.body.items[3].name = "production"
  /\ fnOut = [name |-> "prod", uuid |-> "e2"]

\* C14: the constructor maps h, h + '/' and h + '/api/v1' to the same client
\* base h, for every base URL h that does not itself end in '/' or '/api/v1'.
C14_SameBase ==
  (fn = "constructor" /\ ~EndsWith(fnArg, <<"/">>) /\ ~EndsWith(fnArg, <<"/", "api", "/", "v1">>)) =>
     /\ fnOut.bare = fnArg
     /\ fnOut.slash = fnArg
     /\ fnOut.api = fnArg

\* C15: parseDockerImage: when a ':' occurs after the last '/' (anywhere,
\* when there is no '/'), the name is the text before the last ':' and the
\* tag the text after it; otherwise the name is the whole string and the tag
\* is 'latest'.
C15_TagAfterLastSlash ==
  fn = "parseDockerImage" =>
     LET image == fnArg
         slashes == {i \in 1..Len(image) : image[i] = "/"}
         lastSlash == IF slashes = {} THEN 0 ELSE CHOOSE i \in slashes : \A j \in slashes : j <= i
         colons == {i \in (lastSlash + 1)..Len(image) : image[i] = ":"}
     IN IF colons # {}
          THEN LET c == CHOOSE i \in colons : \A j \in colons : j <= i
               IN fnOut = [name |-> SubSeq(image, 1, c - 1), tag |-> SubSeq(image, c + 1, Len(image))]
          ELSE fnOut = [name |-> image, tag |-> <<"latest">>]

\* An image of the shape host:port/app:tag was split at its last colon.
C15_Witness ==
  /\ fn = "parseDockerImage"
  /\ fnArg = <<"a", ":", "a", "/", "a", ":", "a">>
  /\ fnOut = [name |-> <<"a", ":", "a", "/", "a">>, tag |-> <<"a">>]

\* The identifier fields createProject looks at in the response body.
IdFields(body) ==
  IF body.isNull THEN {}
  ELSE {body.id, body.uuid} \cup (IF body.data.isObject THEN {body.data.id} ELSE {})

\* C20: whenever createProject returns, the id of the returned project is a
\* non-empty string taken from the response's id, nested data.id or uuid;
\* when the response carries none of these, createProject rejects.
C20_ReturnedIdNonEmpty ==
  fn = "createProject" =>
    /\ fnOut.ok =>
          /\ fnOut.id # ""
          /\ \E v \in IdFields(fnArg.body) : Truthy(v) /\ fnOut.id = JsString(v)
    /\ (\A v \in IdFields(fnArg.body) : ~Truthy(v)) => ~fnOut.ok

\* C29 as stated: for every non-empty image string parseDockerImage returns a
\* non-empty name and a non-empty tag, and the tag contains neither '/' nor
\* ':'.
C29_NameAndTagNonEmpty ==
  (fn = "parseDockerImage" /\ fnArg # <<>>) =>
     /\ fnOut.name # <<>>
     /\ fnOut.tag # <<>>
     /\ \A i \in 1..Len(fnOut.tag) : fnOut.tag[i] \notin {"/", ":"}

\* C29 amended: for every non-empty image string the tag parseDockerImage
\* returns contains neither '/' nor ':'; the tag is empty exactly when the
\* image ends with ':', and the name is empty exactly when the image starts
\* with ':' and holds no other ':' and no '/'.
C29_TagWithoutSeparators ==
  (fn = "parseDockerImage" /\ fnArg # <<>>) =>
     LET image == fnArg
     IN /\ \A i \in 1..Len(fnOut.tag) : fnOut.tag[i] \notin {"/", ":"}
        /\ (fnOut.tag = <<>>) <=> (image[Len(image)] = ":")
        /\ (fnOut.name = <<>>) <=>
              (image[1] = ":" /\ \A i \in 2..Len(image) : image[i] \notin {"/", ":"})

\* An image string that ends with its colon was parsed: the tag is empty.
C29_Witness ==
  /\ fn = "parseDockerImage"
  /\ fnArg = <<"a", "/", "a", ":">>
  /\ fnOut = [name |-> <<"a", "/", "a">>, tag |-> <<>>]

----------------------------------------------------------------------------
\* Properties of the command createProject

\* C27: the working directory after setupTauriIntegration and after
\* addAdditionalDependencies is the working directory before the call, both
\* when the step succeeds and when it fails after having changed into the
\* project directory, so that the later steps resolve the project path
\* against the original directory.
C27_WorkingDirectoryRestored ==
  [][ (cliPc \in {"deps", "tauri"}) => (cwd' = cwd) ]_vars

\* C28: with a Coolify URL and token given setupCoolifyDeployment never ends
\* the command: whichever of its calls fails, the credentials are written to
\* the project's .env file and generateProjectFiles runs next; and neither
\* createProject nor setupProjectInfrastructure is called unless
\* testConnection returned true.
C28_CoolifyNeverAborts ==
  [][ (cliPc = "coolify" /\ projectOptions.credentials) =>
        /\ cliPc' = "generate"
        /\ envFile' \in {"all", "credentials"}
        /\ (sent' \cap {"createProject", "setupProjectInfrastructure"} # {}) =>
              connected' = "true"
    ]_vars

====
